---- MODULE Spec2Model ----
(***************************************************************************)
(* Maintenance, stock, machines and operators of backend/main.go.          *)
(*                                                                         *)
(* The tables of the SQLite store (operators, machines, sensors, stock,     *)
(* maintenance, maintenance_stock) are the state.  A handler runs its       *)
(* statements inside one database/sql transaction, or auto-committed while  *)
(* it holds the mutex; SQLite isolates a transaction, so the effect a       *)
(* handler has on the tables is one atomic step: the working copy is        *)
(* installed by Commit or thrown away by Rollback.  A storage call may      *)
(* fail (I/O error, SQLITE_BUSY of a concurrent writer): the input "fault"  *)
(* names the storage call of the handler that fails, 0 for none.           *)
(***************************************************************************)
EXTENDS Integers, Sequences, FiniteSets, TLC

\* ------------------------------------------------------------------ bounds
MaxSensors == 2         \* sensors one machine payload carries at most
MaxQty == 2          \* largest quantity a usedStock entry of a payload carries
InitQty == 2         \* quantity of stock item "bolt" when the server starts

\* ------------------------------------------------------- program constants
StatusCreated == 201
StatusOK == 200
StatusNoContent == 204
StatusBadRequest == 400
StatusNotFound == 404
StatusInternalServerError == 500

StockIds == {"bolt", "nut"}         \* ids of the rows of table stock
MaintIds == {"m1", "m2"}            \* the uuids uuid.New() hands out
Statuses == {"scheduled", "done"}   \* values of column maintenance.status
MachineIds == {"press"}             \* ids of the rows of table machines
OperatorIds == {"ana"}              \* ids of the rows of table operators
NoOperator == "nobody"              \* an id that names no operator
Dates == {"2024-05-01", "2024-05-02"}   \* days, as time.Format("2006-01-02") writes them
ScheduleDate == "2024-05-01"        \* the day the maintenance requests are scheduled for
EmManutencao == "Em manutencao"     \* the status of main.go:404, its diacritics dropped
MachinePool == {"lathe", "mill"}    \* ids uuid.New() hands out for machines,
OperatorPool == {"bo", "cy"}        \* for operators
SensorPool == {"s1", "s2", "s3", "s4", "s5", "s6"}      \* and for sensors
NoMachine == "ghost"                \* an id that names no row of table machines
RequestOrder == <<"q1", "q2", "q3">> \* the requests sent, each served by its goroutine
Requests == {RequestOrder[i] : i \in 1..Len(RequestOrder)}
NoProc == "none"

\* a usedStock list longer than the stock table repeats a stock id, and fails on
\* the primary key of maintenance_stock as the two-entry list that repeats one does
MaxEntries == Cardinality(StockIds)

VARIABLES
    db,       \* the SQLite store: [stock, maintenance, maintenance_stock]
    issued,   \* the uuids uuid.New() has returned so far
    last,     \* the last call answered: request, response, tables before it
    mutex,    \* holder of the global sync.Mutex, or NoProc
    pc,       \* where the goroutine of each request is
    reply     \* what the getMaintenance of each request has read so far

vars == <<db, issued, last, mutex, pc, reply>>

\* ------------------------------------------------------------- data types
\* quantities a usedStock entry carries: the least and the largest
Quantities == {1, MaxQty}

UsedStockItem == [stockId : StockIds, quantity : Quantities]

RECURSIVE SeqsUpTo(_, _)
SeqsUpTo(S, n) ==
    IF n = 0 THEN {<<>>}
    ELSE LET shorter == SeqsUpTo(S, n - 1)
         IN shorter \cup {Append(q, x) : q \in {r \in shorter : Len(r) = n - 1}, x \in S}

\* a decoded Maintenance request body (description carries no behaviour and is
\* left out); these name a machine of table machines
Maintenance ==
    [machineId : MachineIds, date : {ScheduleDate}, status : Statuses,
     usedStock : SeqsUpTo(UsedStockItem, MaxEntries)]

\* the zero Maintenance a failed json.Decode leaves behind
ZeroMaintenance == [machineId |-> "", date |-> "", status |-> "", usedStock |-> <<>>]

\* request bodies: one that decodes into a Maintenance, or one json.Decode rejects
Bodies ==
    {[err |-> FALSE, maint |-> m] : m \in Maintenance}
        \cup {[err |-> TRUE, maint |-> ZeroMaintenance]}

\* ------------------------------------------------------ the SQLite tables
\* A table is a function from the primary keys of its rows to the columns
\* modelled: stock id -> quantity, maintenance id -> [machineId, date, status],
\* maintenance_stock <<maintenanceId, stockId>> -> quantity,
\* machines id -> [status, operatorId], operators id -> name,
\* sensors id -> [name, machineId].
EmptyTable == [x \in {} |-> 0]

\* the NULL of column operatorId (the empty string is a value of its own)
Null == "NULL"

createTables ==
    [operators |-> EmptyTable, machines |-> EmptyTable, sensors |-> EmptyTable,
     stock |-> EmptyTable, maintenance |-> EmptyTable,
     maintenance_stock |-> EmptyTable]

Put(t, key, v) == [x \in DOMAIN t \cup {key} |-> IF x = key THEN v ELSE t[x]]
Drop(t, keys) == [x \in DOMAIN t \ keys |-> t[x]]

\* rows of maintenance_stock of one maintenance id, as the set of their stock ids
StockOf(d, id) == {s \in StockIds : <<id, s>> \in DOMAIN d.maintenance_stock}

\* quantity the usage rows stored for id hold of stock item s (0 without a row)
Reserved(d, id, s) ==
    IF <<id, s>> \in DOMAIN d.maintenance_stock THEN d.maintenance_stock[<<id, s>>] ELSE 0

\* One storage call.  A statement is [k |-> its kind, ...its arguments].
\* Exec gives the tables after it and whether it succeeded.  The schema's FOREIGN
\* KEY clauses are not enforced: the connection string sets no foreign_keys pragma.
Exec(d, st) ==
    CASE st.k = "INSERT maintenance" ->
           IF st.id \in DOMAIN d.maintenance
           THEN [db |-> d, ok |-> FALSE]                         \* PRIMARY KEY(id)
           ELSE [db |-> [d EXCEPT !.maintenance =
                                      Put(@, st.id, [machineId |-> st.machineId,
                                                     date |-> st.date,
                                                     status |-> st.status])],
                 ok |-> TRUE]
      [] st.k = "INSERT maintenance_stock" ->
           IF <<st.id, st.stockId>> \in DOMAIN d.maintenance_stock
           THEN [db |-> d, ok |-> FALSE]          \* PRIMARY KEY(maintenanceId, stockId)
           ELSE [db |-> [d EXCEPT !.maintenance_stock =
                                      Put(@, <<st.id, st.stockId>>, st.quantity)],
                 ok |-> TRUE]
      [] st.k = "UPDATE stock" ->                  \* quantity = quantity + delta WHERE id
           IF st.stockId \in DOMAIN d.stock
           THEN [db |-> [d EXCEPT !.stock[st.stockId] = @ + st.delta], ok |-> TRUE]
           ELSE [db |-> d, ok |-> TRUE]                           \* no row matches
      [] st.k = "UPDATE maintenance" ->
           IF st.id \in DOMAIN d.maintenance
           THEN [db |-> [d EXCEPT !.maintenance[st.id] =
                                      [machineId |-> st.machineId, date |-> st.date,
                                       status |-> st.status]],
                 ok |-> TRUE]
           ELSE [db |-> d, ok |-> TRUE]                           \* no row matches
      [] st.k = "DELETE maintenance_stock" ->
           [db |-> [d EXCEPT !.maintenance_stock =
                                 Drop(@, {<<st.id, s>> : s \in StockIds})],
            ok |-> TRUE]
      [] st.k = "DELETE maintenance" ->
           [db |-> [d EXCEPT !.maintenance = Drop(@, {st.id})], ok |-> TRUE]
      [] st.k = "DELETE stock" ->
           [db |-> [d EXCEPT !.stock = Drop(@, {st.stockId})], ok |-> TRUE]
      [] st.k = "INSERT operators" ->
           IF st.id \in DOMAIN d.operators
           THEN [db |-> d, ok |-> FALSE]                         \* PRIMARY KEY(id)
           ELSE [db |-> [d EXCEPT !.operators = Put(@, st.id, "operator")], ok |-> TRUE]
      [] st.k = "UPDATE machines SET operatorId = NULL" ->     \* WHERE operatorId = ?
           [db |-> [d EXCEPT !.machines =
                       [m \in DOMAIN @ |->
                           IF @[m].operatorId = st.operatorId
                           THEN [@[m] EXCEPT !.operatorId = Null] ELSE @[m]]],
            ok |-> TRUE]
      [] st.k = "DELETE operators" ->
           [db |-> [d EXCEPT !.operators = Drop(@, {st.id})], ok |-> TRUE]
      [] st.k = "INSERT machines" ->
           IF st.id \in DOMAIN d.machines
           THEN [db |-> d, ok |-> FALSE]                         \* PRIMARY KEY(id)
           ELSE [db |-> [d EXCEPT !.machines =
                                      Put(@, st.id, [status |-> st.status,
                                                     operatorId |-> st.operatorId])],
                 ok |-> TRUE]
      [] st.k = "UPDATE machines" ->
           IF st.id \in DOMAIN d.machines
           THEN [db |-> [d EXCEPT !.machines[st.id] =
                                      [status |-> st.status,
                                       operatorId |-> st.operatorId]],
                 ok |-> TRUE]
           ELSE [db |-> d, ok |-> TRUE]                           \* no row matches
      [] st.k = "INSERT sensors" ->
           IF st.id \in DOMAIN d.sensors
           THEN [db |-> d, ok |-> FALSE]                         \* PRIMARY KEY(id)
           ELSE [db |-> [d EXCEPT !.sensors =
                                      Put(@, st.id, [name |-> st.name,
                                                     machineId |-> st.machineId])],
                 ok |-> TRUE]
      [] st.k = "DELETE sensors" ->                            \* WHERE machineId = ?
           [db |-> [d EXCEPT !.sensors =
                       Drop(@, {x \in DOMAIN @ : @[x].machineId = st.machineId})],
            ok |-> TRUE]
      [] st.k = "DELETE machines" ->
           [db |-> [d EXCEPT !.machines = Drop(@, {st.id})], ok |-> TRUE]
      [] OTHER -> [db |-> d, ok |-> TRUE]          \* Begin, SELECT, Commit

\* Run the statements from the i-th on; the fault-th storage call fails.
\* failed is the index of the statement that returned an error, 0 for none.
RECURSIVE RunFrom(_, _, _, _)
RunFrom(d, stmts, i, fault) ==
    IF i > Len(stmts) THEN [db |-> d, failed |-> 0]
    ELSE LET r == Exec(d, stmts[i])
         IN IF i = fault \/ ~r.ok THEN [db |-> d, failed |-> i]
            ELSE RunFrom(r.db, stmts, i + 1, fault)

\* faulty variant: the statements run on the database itself (db.Exec for tx.Exec), so
\* what ran before the error stays
RollbackKeepsWork(before, work) == work

\* tx.Rollback(): the tables are those before db.Begin()
Rollback(before, work) == before

\* tx.Commit() that succeeds: the working copy becomes the tables
Commit(before, work) == work

\* ------------------------------------------------------------ the handlers
\* A handler gives [db |-> the tables it leaves, code |-> the HTTP status it
\* answers].  tx.Prepare and the Exec of the prepared statement are one storage
\* call: both are followed by the same "tx.Rollback(); 500; return".

\* what a handler leaves: the tables, the status code answered, and the storage
\* call that returned an error (0 for none)
Answer(d, code, failed) == [db |-> d, code |-> code, failed |-> failed]

\* faulty variant: the loop of updateMaintenance in the place of createMaintenance's,
\* the usage rows inserted and no stock deducted
RECURSIVE CreateItemStmtsNoDeduct(_, _)
CreateItemStmtsNoDeduct(id, usedStock) ==
    IF usedStock = <<>> THEN <<>>
    ELSE LET item == Head(usedStock)
         IN << [k |-> "INSERT maintenance_stock", id |-> id, stockId |-> item.stockId,
                quantity |-> item.quantity] >>
            \o CreateItemStmtsNoDeduct(id, Tail(usedStock))

\* faulty variant: every entry deducts one unit, whatever its quantity
RECURSIVE CreateItemStmtsDeductOne(_, _)
CreateItemStmtsDeductOne(id, usedStock) ==
    IF usedStock = <<>> THEN <<>>
    ELSE LET item == Head(usedStock)
         IN << [k |-> "INSERT maintenance_stock", id |-> id, stockId |-> item.stockId,
                quantity |-> item.quantity],
               [k |-> "UPDATE stock", stockId |-> item.stockId, delta |-> 0 - 1] >>
            \o CreateItemStmtsDeductOne(id, Tail(usedStock))

\* the loop "for _, item := range maint.UsedStock" of createMaintenance
RECURSIVE CreateItemStmts(_, _)
CreateItemStmts(id, usedStock) ==
    IF usedStock = <<>> THEN <<>>
    ELSE LET item == Head(usedStock)
         IN << [k |-> "INSERT maintenance_stock", id |-> id, stockId |-> item.stockId,
                quantity |-> item.quantity],
               [k |-> "UPDATE stock", stockId |-> item.stockId, delta |-> 0 - item.quantity] >>
            \o CreateItemStmts(id, Tail(usedStock))

\* faulty variant: the status of the payload is stored
CreateStmtsPayloadStatus(id, maint) ==
    << [k |-> "Begin"],
       [k |-> "INSERT maintenance", id |-> id, machineId |-> maint.machineId,
        date |-> maint.date,
        status |-> maint.status] >>
    \o CreateItemStmts(id, maint.usedStock)
    \o << [k |-> "Commit"] >>

CreateStmts(id, maint) ==
    << [k |-> "Begin"],
       [k |-> "INSERT maintenance", id |-> id, machineId |-> maint.machineId,
        date |-> maint.date,
        status |-> "scheduled"] >>
    \o CreateItemStmts(id, maint.usedStock)
    \o << [k |-> "Commit"] >>

createMaintenance(d, id, body, fault) ==
    IF body.err THEN Answer(d, StatusBadRequest, 0)
    ELSE LET stmts == CreateStmts(id, body.maint)
             r == RunFrom(d, stmts, 1, fault)
         IN CASE r.failed = 0 -> Answer(Commit(d, r.db), StatusOK, 0)
              [] r.failed # 0 /\ stmts[r.failed].k = "Begin" ->
                   Answer(d, StatusInternalServerError, r.failed)
              [] r.failed # 0 /\ stmts[r.failed].k = "Commit" ->
                   \* the error of tx.Commit() is dropped; the driver rolls back
                   Answer(Rollback(d, r.db), StatusOK, r.failed)
              [] OTHER -> Answer(Rollback(d, r.db), StatusInternalServerError, r.failed)

\* faulty variant: an entry that repeats the stock id of the one before it is
\* merged into it and not inserted again
RECURSIVE UpdateItemStmtsMerged(_, _)
UpdateItemStmtsMerged(id, usedStock) ==
    IF usedStock = <<>> THEN <<>>
    ELSE LET item == Head(usedStock)
             rest == Tail(usedStock)
         IN << [k |-> "INSERT maintenance_stock", id |-> id, stockId |-> item.stockId,
                quantity |-> item.quantity] >>
            \o UpdateItemStmtsMerged(id,
                   IF rest # <<>> /\ Head(rest).stockId = item.stockId
                   THEN Tail(rest) ELSE rest)

\* the loop "for _, item := range maint.UsedStock" of updateMaintenance
RECURSIVE UpdateItemStmts(_, _)
UpdateItemStmts(id, usedStock) ==
    IF usedStock = <<>> THEN <<>>
    ELSE LET item == Head(usedStock)
         IN << [k |-> "INSERT maintenance_stock", id |-> id, stockId |-> item.stockId,
                quantity |-> item.quantity] >>
            \o UpdateItemStmts(id, Tail(usedStock))

\* faulty variant: the new entries are deducted from stock as createMaintenance does
UpdateStmtsDeducting(id, maint) ==
    << [k |-> "Begin"],
       [k |-> "UPDATE maintenance", id |-> id, machineId |-> maint.machineId,
        date |-> maint.date,
        status |-> maint.status],
       [k |-> "DELETE maintenance_stock", id |-> id] >>
    \o CreateItemStmts(id, maint.usedStock)
    \o << [k |-> "Commit"] >>

\* faulty variant: the DELETE of the old usage rows is left out
UpdateStmtsKeepRows(id, maint) ==
    << [k |-> "Begin"],
       [k |-> "UPDATE maintenance", id |-> id, machineId |-> maint.machineId,
        date |-> maint.date,
        status |-> maint.status],
       [k |-> "SELECT maintenance_stock", id |-> id] >>
    \o UpdateItemStmts(id, maint.usedStock)
    \o << [k |-> "Commit"] >>

UpdateStmts(id, maint) ==
    << [k |-> "Begin"],
       [k |-> "UPDATE maintenance", id |-> id, machineId |-> maint.machineId,
        date |-> maint.date,
        status |-> maint.status],
       [k |-> "DELETE maintenance_stock", id |-> id] >>
    \o UpdateItemStmts(id, maint.usedStock)
    \o << [k |-> "Commit"] >>

updateMaintenance(d, id, body, fault) ==
    IF body.err THEN Answer(d, StatusBadRequest, 0)
    ELSE LET stmts == UpdateStmts(id, body.maint)
             r == RunFrom(d, stmts, 1, fault)
         IN CASE r.failed = 0 -> Answer(Commit(d, r.db), StatusOK, 0)
              [] r.failed # 0 /\ stmts[r.failed].k = "Begin" ->
                   Answer(d, StatusInternalServerError, r.failed)
              [] r.failed # 0 /\ stmts[r.failed].k = "Commit" ->
                   \* the error of tx.Commit() is dropped; the driver rolls back
                   Answer(Rollback(d, r.db), StatusOK, r.failed)
              [] OTHER -> Answer(Rollback(d, r.db), StatusInternalServerError, r.failed)

\* the rows "SELECT stockId, quantity FROM maintenance_stock WHERE maintenanceId = ?"
\* returns, in the order of the primary-key index
StockOrder == <<"bolt", "nut">>

SelectMaintenanceStock(d, id) ==
    LET hit(s) == <<id, s>> \in DOMAIN d.maintenance_stock
        ids == SelectSeq(StockOrder, hit)
    IN [i \in 1..Len(ids) |->
           [stockId |-> ids[i], quantity |-> d.maintenance_stock[<<id, ids[i]>>]]]

\* faulty variant: the restoring loop stops after the first usage row
RestoreStmtsFirstOnly(usedStock) ==
    IF usedStock = <<>> THEN <<>>
    ELSE << [k |-> "UPDATE stock", stockId |-> Head(usedStock).stockId,
             delta |-> Head(usedStock).quantity] >>

\* the loop "for _, item := range usedStock" of deleteMaintenance
RECURSIVE RestoreStmts(_)
RestoreStmts(usedStock) ==
    IF usedStock = <<>> THEN <<>>
    ELSE LET item == Head(usedStock)
         IN << [k |-> "UPDATE stock", stockId |-> item.stockId, delta |-> item.quantity] >>
            \o RestoreStmts(Tail(usedStock))

\* faulty variant: nothing is restored once one of the usage rows names a stock
\* item that is no longer in table stock
DeleteStmtsSkipOnMissing(d, id) ==
    << [k |-> "Begin"],
       [k |-> "SELECT maintenance_stock", id |-> id] >>
    \o (IF StockOf(d, id) \subseteq DOMAIN d.stock
        THEN RestoreStmts(SelectMaintenanceStock(d, id)) ELSE <<>>)
    \o << [k |-> "DELETE maintenance_stock", id |-> id],
          [k |-> "DELETE maintenance", id |-> id],
          [k |-> "Commit"] >>

\* faulty variant: the usage rows are left in place when the record is deleted
DeleteStmtsKeepRows(d, id) ==
    << [k |-> "Begin"],
       [k |-> "SELECT maintenance_stock", id |-> id] >>
    \o RestoreStmts(SelectMaintenanceStock(d, id))
    \o << [k |-> "SELECT maintenance_stock", id |-> id],
          [k |-> "DELETE maintenance", id |-> id],
          [k |-> "Commit"] >>

DeleteStmts(d, id) ==
    << [k |-> "Begin"],
       [k |-> "SELECT maintenance_stock", id |-> id] >>
    \o RestoreStmts(SelectMaintenanceStock(d, id))
    \o << [k |-> "DELETE maintenance_stock", id |-> id],
          [k |-> "DELETE maintenance", id |-> id],
          [k |-> "Commit"] >>

deleteMaintenance(d, id, fault) ==
    LET stmts == DeleteStmts(d, id)
        r == RunFrom(d, stmts, 1, fault)
    IN CASE r.failed = 0 -> Answer(Commit(d, r.db), StatusNoContent, 0)
         [] r.failed # 0 /\ stmts[r.failed].k = "Begin" ->
              Answer(d, StatusInternalServerError, r.failed)
         [] OTHER -> Answer(Rollback(d, r.db), StatusInternalServerError, r.failed)

\* GET /api/maintenance/{id}: the row and its usage rows, or 404
getMaintenance(d, id) ==
    IF id \notin DOMAIN d.maintenance
    THEN [code |-> StatusNotFound, machineId |-> "", status |-> "", usedStock |-> <<>>]
    ELSE [code |-> StatusOK, machineId |-> d.maintenance[id].machineId,
          status |-> d.maintenance[id].status,
          usedStock |-> SelectMaintenanceStock(d, id)]

\* the storage calls of DELETE /api/stock/{id}, each auto-committed
StockItemStmts(id) ==
    << [k |-> "SELECT EXISTS stock", stockId |-> id],
       [k |-> "DELETE stock", stockId |-> id] >>

\* db.Exec("DELETE FROM stock WHERE id = ?"): the second storage call of the request
deleteStockItem(d, id, fault) ==
    LET r == RunFrom(d, StockItemStmts(id), 2, fault)
    IN IF r.failed = 0 THEN Answer(r.db, StatusNoContent, 0)
       ELSE Answer(d, StatusInternalServerError, r.failed)

\* DELETE /api/stock/{id}: the existence check, then deleteStockItem
stockItemHandler(d, id, fault) ==
    LET r == RunFrom(d, SubSeq(StockItemStmts(id), 1, 1), 1, fault)
    IN IF r.failed # 0 THEN Answer(d, StatusInternalServerError, r.failed)
       ELSE IF id \notin DOMAIN d.stock THEN Answer(d, StatusNotFound, 0)
       ELSE deleteStockItem(d, id, fault)

\* ------------------------------------------- operators, machines and sensors
\* a decoded Operator request body, or one json.Decode rejects
OperatorBodies == {[err |-> FALSE], [err |-> TRUE]}

\* a decoded Sensor: its name (the id of the payload is overwritten)
SensorNames == {"temp"}

\* the status strings clients send for a machine (the column is free-form text)
MachineStatuses == {"active", EmManutencao}

\* a decoded Machine request body: status, operatorId ("" when the field is
\* left out) and sensors
Machine ==
    [status : MachineStatuses, operatorId : {""} \cup OperatorIds \cup {NoOperator},
     sensors : SeqsUpTo(SensorNames, MaxSensors)]

ZeroMachine == [status |-> "", operatorId |-> "", sensors |-> <<>>]

MachineBodies ==
    {[err |-> FALSE, machine |-> m] : m \in Machine}
        \cup {[err |-> TRUE, machine |-> ZeroMachine]}

SensorBodies ==
    {[err |-> FALSE, name |-> n] : n \in SensorNames} \cup {[err |-> TRUE, name |-> ""]}

\* POST /api/operators: one auto-committed INSERT under a fresh id
createOperator(d, id, body, fault) ==
    IF body.err THEN Answer(d, StatusBadRequest, 0)
    ELSE LET r == RunFrom(d, << [k |-> "INSERT operators", id |-> id] >>, 1, fault)
         IN IF r.failed = 0 THEN Answer(r.db, StatusCreated, 0)
            ELSE Answer(r.db, StatusInternalServerError, r.failed)

\* faulty variant: the operator is deleted and the machines keep naming it
DeleteOperatorStmtsKeepReference(id) ==
    << [k |-> "SELECT EXISTS operators", id |-> id],
       [k |-> "SELECT machines", operatorId |-> id],
       [k |-> "DELETE operators", id |-> id] >>

\* the storage calls of DELETE /api/operators/{id}, each auto-committed
DeleteOperatorStmts(id) ==
    << [k |-> "SELECT EXISTS operators", id |-> id],
       [k |-> "UPDATE machines SET operatorId = NULL", operatorId |-> id],
       [k |-> "DELETE operators", id |-> id] >>

\* deleteOperator: the second and third storage call of the request; what ran
\* before a failing call stays
deleteOperator(d, id, fault) ==
    LET r == RunFrom(d, DeleteOperatorStmts(id), 2, fault)
    IN IF r.failed = 0 THEN Answer(r.db, StatusNoContent, 0)
       ELSE Answer(r.db, StatusInternalServerError, r.failed)

\* DELETE /api/operators/{id}: the existence check, then deleteOperator
operatorHandler(d, id, fault) ==
    LET r == RunFrom(d, SubSeq(DeleteOperatorStmts(id), 1, 1), 1, fault)
    IN IF r.failed # 0 THEN Answer(d, StatusInternalServerError, r.failed)
       ELSE IF id \notin DOMAIN d.operators THEN Answer(d, StatusNotFound, 0)
       ELSE deleteOperator(d, id, fault)

\* the loop "for _, s := range m.Sensors": the i-th sensor is inserted under the
\* i-th fresh id
SensorStmts(machineId, ids, sensors) ==
    [i \in 1..Len(sensors) |->
        [k |-> "INSERT sensors", id |-> ids[i], name |-> sensors[i],
         machineId |-> machineId]]

\* the storage calls of POST /api/machines
CreateMachineStmts(id, ids, machine) ==
    << [k |-> "Begin"],
       [k |-> "INSERT machines", id |-> id, status |-> machine.status,
        operatorId |-> machine.operatorId] >>
    \o SensorStmts(id, ids, machine.sensors)
    \o << [k |-> "Commit"] >>

\* POST /api/machines: the machine and its sensors in one transaction
createMachine(d, id, ids, body, fault) ==
    IF body.err THEN Answer(d, StatusBadRequest, 0)
    ELSE LET stmts == CreateMachineStmts(id, ids, body.machine)
             r == RunFrom(d, stmts, 1, fault)
         IN CASE r.failed = 0 -> Answer(Commit(d, r.db), StatusCreated, 0)
              [] r.failed # 0 /\ stmts[r.failed].k = "Begin" ->
                   Answer(d, StatusInternalServerError, r.failed)
              [] OTHER -> Answer(Rollback(d, r.db), StatusInternalServerError, r.failed)

\* the existence check machineHandler starts with
MachineExistsStmts(id) == << [k |-> "SELECT EXISTS machines", id |-> id] >>

\* faulty variant: the sensors the machine had stay next to the new ones
UpdateMachineStmtsKeepSensors(id, ids, machine) ==
    MachineExistsStmts(id)
    \o << [k |-> "Begin"],
          [k |-> "UPDATE machines", id |-> id, status |-> machine.status,
           operatorId |-> machine.operatorId] >>
    \o SensorStmts(id, ids, machine.sensors)
    \o << [k |-> "Commit"] >>

\* the storage calls of PUT /api/machines/{id}
UpdateMachineStmts(id, ids, machine) ==
    MachineExistsStmts(id)
    \o << [k |-> "Begin"],
          [k |-> "UPDATE machines", id |-> id, status |-> machine.status,
           operatorId |-> machine.operatorId],
          [k |-> "DELETE sensors", machineId |-> id] >>
    \o SensorStmts(id, ids, machine.sensors)
    \o << [k |-> "Commit"] >>

\* updateMachine: the row rewritten and the sensors replaced in one transaction
updateMachine(d, id, ids, body, fault) ==
    IF body.err THEN Answer(d, StatusBadRequest, 0)
    ELSE LET stmts == UpdateMachineStmts(id, ids, body.machine)
             r == RunFrom(d, stmts, 2, fault)
         IN CASE r.failed = 0 -> Answer(Commit(d, r.db), StatusOK, 0)
              [] r.failed # 0 /\ stmts[r.failed].k = "Begin" ->
                   Answer(d, StatusInternalServerError, r.failed)
              [] OTHER -> Answer(Rollback(d, r.db), StatusInternalServerError, r.failed)

\* the storage calls of DELETE /api/machines/{id}, each auto-committed
DeleteMachineStmts(id) ==
    MachineExistsStmts(id)
    \o << [k |-> "DELETE sensors", machineId |-> id],
          [k |-> "DELETE machines", id |-> id] >>

\* deleteMachine: the sensors, then the machine; what ran before a failing call
\* stays
deleteMachine(d, id, fault) ==
    LET r == RunFrom(d, DeleteMachineStmts(id), 2, fault)
    IN IF r.failed = 0 THEN Answer(r.db, StatusNoContent, 0)
       ELSE Answer(r.db, StatusInternalServerError, r.failed)

\* the storage calls of POST /api/machines/{id}/sensors
CreateMachineSensorStmts(machineID, id, name) ==
    MachineExistsStmts(machineID)
    \o << [k |-> "INSERT sensors", id |-> id, name |-> name, machineId |-> machineID] >>

\* createMachineSensor: one auto-committed INSERT under a fresh id
createMachineSensor(d, machineID, id, body, fault) ==
    IF body.err THEN Answer(d, StatusBadRequest, 0)
    ELSE LET r == RunFrom(d, CreateMachineSensorStmts(machineID, id, body.name), 2, fault)
         IN IF r.failed = 0 THEN Answer(r.db, StatusCreated, 0)
            ELSE Answer(r.db, StatusInternalServerError, r.failed)

\* what getMachine and listMachines encode of one row of table machines: the
\* status overridden when SELECT COUNT(*) FROM maintenance WHERE machineId = ?
\* AND date = today is positive, a NULL operatorId read as "", and the sensors
MachineView(d, id, today) ==
    LET maintenanceCount ==
            Cardinality({m \in DOMAIN d.maintenance :
                            /\ d.maintenance[m].machineId = id
                            /\ d.maintenance[m].date = today})
    IN [status |-> IF maintenanceCount > 0 THEN EmManutencao ELSE d.machines[id].status,
        operatorId |-> IF d.machines[id].operatorId = Null THEN ""
                       ELSE d.machines[id].operatorId,
        sensors |-> {x \in DOMAIN d.sensors : d.sensors[x].machineId = id}]

\* the storage calls of GET /api/machines/{id}
GetMachineStmts(id) ==
    MachineExistsStmts(id)
    \o << [k |-> "SELECT machines", id |-> id],
          [k |-> "SELECT COUNT maintenance", machineId |-> id],
          [k |-> "SELECT sensors", machineId |-> id] >>

\* what a read answers: Answer with the value encoded (none on an error)
NoMachines == [x \in {} |-> ZeroMachine]

Encoded(d, code, failed, out) == [db |-> d, code |-> code, failed |-> failed, out |-> out]

\* getMachine: three queries, nothing written
getMachine(d, id, today, fault) ==
    LET r == RunFrom(d, GetMachineStmts(id), 2, fault)
    IN IF r.failed = 0
       THEN Encoded(d, StatusOK, 0, [x \in {id} |-> MachineView(d, id, today)])
       ELSE Encoded(d, StatusInternalServerError, r.failed, NoMachines)

\* machineHandler: the mutex is held from here to the return; the existence
\* check, then the handler of the route
machineHandler(d, route, id, ids, body, today, fault) ==
    LET r == RunFrom(d, MachineExistsStmts(id), 1, fault)
    IN IF r.failed # 0 THEN Encoded(d, StatusInternalServerError, r.failed, NoMachines)
       ELSE IF id \notin DOMAIN d.machines THEN Encoded(d, StatusNotFound, 0, NoMachines)
       ELSE CASE route = "GET" -> getMachine(d, id, today, fault)
              [] route = "PUT" -> updateMachine(d, id, ids, body, fault)
              [] route = "DELETE" -> deleteMachine(d, id, fault)
              [] route = "POST /sensors" ->
                   createMachineSensor(d, id, ids[1], body, fault)

\* the storage calls of GET /api/machines: the rows, then for each row the
\* count of today's maintenance and the sensors
ListMachinesStmts(d) ==
    << [k |-> "SELECT machines"] >>
    \o [i \in 1..2 * Cardinality(DOMAIN d.machines) |->
           IF i % 2 = 1 THEN [k |-> "SELECT COUNT maintenance"]
           ELSE [k |-> "SELECT sensors"]]

\* listMachines: every row as getMachine encodes it, nothing written
listMachines(d, today, fault) ==
    LET r == RunFrom(d, ListMachinesStmts(d), 1, fault)
    IN IF r.failed = 0
       THEN Encoded(d, StatusOK, 0,
                    [id \in DOMAIN d.machines |-> MachineView(d, id, today)])
       ELSE Encoded(d, StatusInternalServerError, r.failed, NoMachines)

\* ------------------------------------------------------------ state machine
NoBody == [err |-> FALSE, maint |-> ZeroMaintenance]

\* the stock table the server starts on: the database file as earlier runs left
\* it, holding "bolt" (InitQty on hand) and "nut" (none on hand)
InitStock == [s \in StockIds |-> IF s = "bolt" THEN InitQty ELSE 0]

\* the machines table the server starts on
InitMachines == [m \in MachineIds |-> [status |-> "active", operatorId |-> "ana"]]

\* the operators table and the sensors table the server starts on
InitOperators == [o \in OperatorIds |-> "operator"]

InitSensors == [x \in {"s0"} |-> [name |-> "temp", machineId |-> "press"]]

InitTables ==
    [createTables EXCEPT !.stock = InitStock, !.machines = InitMachines,
                         !.operators = InitOperators, !.sensors = InitSensors]

\* the call just answered: the request, the status code, whether one of its
\* storage calls returned an I/O error, and the tables before the call
Call(op, id, body, fault, r) ==
    [op |-> op, id |-> id, body |-> body, code |-> r.code,
     fault |-> (fault # 0 /\ r.failed = fault), before |-> db]

Init ==
    /\ db = InitTables
    /\ last = [op |-> "none", id |-> "", body |-> NoBody, code |-> 0, fault |-> FALSE,
               before |-> db]
    /\ issued = {}
    /\ mutex = NoProc
    /\ pc = [q \in Requests |-> "idle"]
    /\ reply = [q \in Requests |->
                   [id |-> "", code |-> 0, machineId |-> "", status |-> "",
                    usedStock |-> <<>>, pre |-> db, post |-> db]]

\* uuid.New(): an id never handed out before (ids are interchangeable)
NewUUID ==
    IF MaintIds \subseteq issued THEN {} ELSE {CHOOSE id \in MaintIds \ issued : TRUE}

\* storage calls of a handler that may fail: 0 is none
Faults(stmts) == 0..Len(stmts)

\* faulty variant: a return path that leaves without mutex.Unlock()
ReturnLocked(q) ==
    /\ pc' = [pc EXCEPT ![q] = "done"]
    /\ mutex' = mutex

\* the request ends: the deferred mutex.Unlock() of a handler that locked runs
Return(q) ==
    /\ pc' = [pc EXCEPT ![q] = "done"]
    /\ mutex' = IF mutex = q THEN NoProc ELSE mutex

\* POST /api/maintenance, served for request q
CreateMaintenance(q, bodies) ==
    \E id \in NewUUID, body \in bodies :
      \E fault \in (IF body.err THEN {0} ELSE Faults(CreateStmts(id, body.maint))) :
        LET r == createMaintenance(db, id, body, fault)
        IN /\ db' = r.db
           /\ issued' = IF body.err THEN issued ELSE issued \cup {id}
           /\ last' = Call("createMaintenance", IF body.err THEN "" ELSE id, body, fault, r)
           /\ Return(q)
           /\ UNCHANGED reply

\* PUT /api/maintenance/{id}, served for request q
UpdateMaintenance(q, bodies) ==
    \E id \in issued, body \in bodies :
      \E fault \in (IF body.err THEN {0} ELSE Faults(UpdateStmts(id, body.maint))) :
        LET r == updateMaintenance(db, id, body, fault)
        IN /\ db' = r.db
           /\ last' = Call("updateMaintenance", id, body, fault, r)
           /\ Return(q)
           /\ UNCHANGED <<issued, reply>>

\* DELETE /api/maintenance/{id}, served for request q
DeleteMaintenance(q) ==
    \E id \in issued :
      \E fault \in Faults(DeleteStmts(db, id)) :
        LET r == deleteMaintenance(db, id, fault)
        IN /\ db' = r.db
           /\ last' = Call("deleteMaintenance", id, NoBody, fault, r)
           /\ Return(q)
           /\ UNCHANGED <<issued, reply>>

\* DELETE /api/stock/{id}, served for request q
DeleteStockItem(q) ==
    \E id \in StockIds :
      \E fault \in Faults(StockItemStmts(id)) :
        LET r == stockItemHandler(db, id, fault)
        IN /\ db' = r.db
           /\ last' = Call("deleteStockItem", id, NoBody, fault, r)
           /\ Return(q)
           /\ UNCHANGED <<issued, reply>>

\* --- Spec: the requests are served one after the other, each call one step
NextRequest ==
    LET idle == {i \in 1..Len(RequestOrder) : pc[RequestOrder[i]] = "idle"}
    IN IF idle = {} \/ mutex # NoProc THEN {}
       ELSE {RequestOrder[CHOOSE i \in idle : \A j \in idle : i <= j]}

CreateMaintenanceCall == \E q \in NextRequest : CreateMaintenance(q, Bodies)

UpdateMaintenanceCall == \E q \in NextRequest : UpdateMaintenance(q, Bodies)

DeleteMaintenanceCall == \E q \in NextRequest : DeleteMaintenance(q)

DeleteStockItemCall == \E q \in NextRequest : DeleteStockItem(q)

Next ==
    \/ CreateMaintenanceCall
    \/ UpdateMaintenanceCall
    \/ DeleteMaintenanceCall
    \/ DeleteStockItemCall

Spec == Init /\ [][Next]_vars

\* --- ConcSpec: net/http runs each request in its own goroutine; a goroutine is
\* inside its handler from the step it is routed there to the step it returns
ConcRequests == {RequestOrder[1], RequestOrder[2]}

\* the handlers that start with mutex.Lock(); defer mutex.Unlock()
Locking == {"deleteMaintenance", "stockItemHandler"}

AtLock(handler) == handler \o ":Lock"

Enter(q, handler) ==
    /\ pc[q] = "idle"
    /\ pc' = [pc EXCEPT ![q] = IF handler \in Locking THEN AtLock(handler) ELSE handler]
    /\ UNCHANGED <<db, issued, last, mutex, reply>>

\* maintenanceRootHandler: POST goes to createMaintenance, no lock taken
MaintenanceRootHandler == \E q \in ConcRequests : Enter(q, "createMaintenance")

\* maintenanceIdHandler: PUT goes to updateMaintenance, DELETE to deleteMaintenance,
\* no lock taken by the router; the id of the path is one that was handed out
MaintenanceIdHandler ==
    \E q \in ConcRequests, handler \in {"updateMaintenance", "deleteMaintenance"} :
        issued # {} /\ Enter(q, handler)

\* stockItemHandler is entered
StockItemHandler == \E q \in ConcRequests : Enter(q, "stockItemHandler")

\* mutex.Lock() of a locking handler: blocks while another goroutine holds it
Lock ==
    \E q \in Requests, handler \in Locking :
        /\ pc[q] = AtLock(handler)
        /\ mutex = NoProc
        /\ mutex' = q
        /\ pc' = [pc EXCEPT ![q] = handler]
        /\ UNCHANGED <<db, issued, last, reply>>

CreateMaintenanceBody ==
    \E q \in ConcRequests : pc[q] = "createMaintenance" /\ CreateMaintenance(q, Bodies)

UpdateMaintenanceBody ==
    \E q \in ConcRequests : pc[q] = "updateMaintenance" /\ UpdateMaintenance(q, Bodies)

DeleteMaintenanceBody ==
    \E q \in Requests : pc[q] = "deleteMaintenance" /\ DeleteMaintenance(q)

DeleteStockItemBody ==
    \E q \in ConcRequests : pc[q] = "stockItemHandler" /\ DeleteStockItem(q)

ConcNext ==
    \/ MaintenanceRootHandler
    \/ MaintenanceIdHandler
    \/ StockItemHandler
    \/ Lock
    \/ CreateMaintenanceBody
    \/ UpdateMaintenanceBody
    \/ DeleteMaintenanceBody
    \/ DeleteStockItemBody

ConcSpec == Init /\ [][ConcNext]_vars

\* --- LiveSpec: the goroutines of ConcSpec under the Go scheduler, which runs
\* every goroutine that can take its next step, and sync.Mutex, which hands the
\* lock to a waiting goroutine; the bodies sent carry at most one usedStock entry
LiveBodies ==
    {b \in Bodies : Len(b.maint.usedStock) <= 1 /\ b.maint.status # "done"}

LiveCreateMaintenanceBody ==
    \E q \in ConcRequests :
        pc[q] = "createMaintenance" /\ CreateMaintenance(q, LiveBodies)

LiveUpdateMaintenanceBody ==
    \E q \in ConcRequests :
        pc[q] = "updateMaintenance" /\ UpdateMaintenance(q, LiveBodies)

\* the steps a goroutine inside a handler takes
Serve ==
    \/ Lock
    \/ LiveCreateMaintenanceBody
    \/ LiveUpdateMaintenanceBody
    \/ DeleteMaintenanceBody
    \/ DeleteStockItemBody

LiveNext ==
    \/ MaintenanceRootHandler
    \/ MaintenanceIdHandler
    \/ StockItemHandler
    \/ Serve

LiveSpec == Init /\ [][LiveNext]_vars /\ WF_vars(Serve)

\* --- RaceSpec: DELETE /api/maintenance/{id} sent three times at once for one
\* record; the server starts on the tables a createMaintenance with the entry
\* (bolt, 1) has left
RaceRecord == "m0"

RaceTables ==
    [InitTables EXCEPT
        !.stock = [InitStock EXCEPT !["bolt"] = InitQty - 1],
        !.maintenance = Put(EmptyTable, RaceRecord,
                            [machineId |-> "press", date |-> ScheduleDate,
                             status |-> "scheduled"]),
        !.maintenance_stock = Put(EmptyTable, <<RaceRecord, "bolt">>, 1)]

RaceInit ==
    /\ db = RaceTables
    /\ last = [op |-> "none", id |-> "", body |-> NoBody, code |-> 0, fault |-> FALSE,
               before |-> db]
    /\ issued = {RaceRecord}
    /\ mutex = NoProc
    /\ pc = [q \in Requests |-> "idle"]
    /\ reply = [q \in Requests |->
                   [id |-> "", code |-> 0, machineId |-> "", status |-> "",
                    usedStock |-> <<>>, pre |-> db, post |-> db]]

DeleteRequest == \E q \in Requests : Enter(q, "deleteMaintenance")

RaceNext ==
    \/ DeleteRequest
    \/ Lock
    \/ DeleteMaintenanceBody

RaceSpec == RaceInit /\ [][RaceNext]_vars

\* --- MachineSpec: the requests to /api/operators and /api/machines, served one
\* after the other (machinesHandler, machineHandler, operatorsHandler and
\* operatorHandler hold the mutex from their first statement to their return),
\* with POST /api/maintenance scheduling maintenance for a machine and a day

\* uuid.New() for a row of one kind: an id of the pool never handed out before
Fresh(pool) ==
    IF pool \subseteq issued THEN {} ELSE {CHOOSE id \in pool \ issued : TRUE}

\* n calls of uuid.New(): n different ids never handed out before
RECURSIVE FreshSeq(_, _, _)
FreshSeq(pool, used, n) ==
    IF n = 0 THEN <<>>
    ELSE LET id == CHOOSE x \in pool \ used : TRUE
         IN <<id>> \o FreshSeq(pool, used \cup {id}, n - 1)

NewSensorIDs(n) ==
    IF Cardinality(SensorPool \ issued) < n THEN {}
    ELSE {FreshSeq(SensorPool, issued, n)}

Range(f) == {f[i] : i \in DOMAIN f}

\* the read just answered: Call, with the day time.Now() gave and the value encoded
Read(op, id, today, fault, r) ==
    [op |-> op, id |-> id, body |-> [err |-> FALSE, today |-> today], code |-> r.code,
     fault |-> (fault # 0 /\ r.failed = fault), before |-> db, out |-> r.out]

\* POST /api/operators, served for request q
CreateOperator(q) ==
    \E id \in Fresh(OperatorPool), body \in OperatorBodies :
      \E fault \in (IF body.err THEN {0} ELSE 0..1) :
        LET r == createOperator(db, id, body, fault)
        IN /\ db' = r.db
           /\ issued' = IF body.err THEN issued ELSE issued \cup {id}
           /\ last' = Call("createOperator", id, body, fault, r)
           /\ Return(q)
           /\ UNCHANGED reply

\* DELETE /api/operators/{id}, served for request q
DeleteOperator(q) ==
    \E id \in DOMAIN db.operators \cup {NoOperator} :
      \E fault \in Faults(DeleteOperatorStmts(id)) :
        LET r == operatorHandler(db, id, fault)
        IN /\ db' = r.db
           /\ last' = Call("deleteOperator", id, NoBody, fault, r)
           /\ Return(q)
           /\ UNCHANGED <<issued, reply>>

\* POST /api/machines, served for request q
CreateMachine(q) ==
    \E id \in Fresh(MachinePool), body \in MachineBodies :
      \E ids \in NewSensorIDs(Len(body.machine.sensors)) :
        \E fault \in (IF body.err THEN {0}
                      ELSE Faults(CreateMachineStmts(id, ids, body.machine))) :
          LET r == createMachine(db, id, ids, body, fault)
          IN /\ db' = r.db
             /\ issued' = IF body.err THEN issued ELSE issued \cup {id} \cup Range(ids)
             /\ last' = Call("createMachine", id, body, fault, r)
             /\ Return(q)
             /\ UNCHANGED reply

\* PUT /api/machines/{id}, served for request q
UpdateMachine(q) ==
    \E id \in DOMAIN db.machines \cup {NoMachine}, body \in MachineBodies :
      \E ids \in NewSensorIDs(Len(body.machine.sensors)) :
        \E fault \in (IF body.err THEN {0, 1}
                      ELSE Faults(UpdateMachineStmts(id, ids, body.machine))) :
          LET r == machineHandler(db, "PUT", id, ids, body, "", fault)
          IN /\ db' = r.db
             /\ issued' = IF body.err \/ r.code = StatusNotFound \/ r.failed = 1
                          THEN issued ELSE issued \cup Range(ids)
             /\ last' = Call("updateMachine", id, body, fault, r)
             /\ Return(q)
             /\ UNCHANGED reply

\* DELETE /api/machines/{id}, served for request q
DeleteMachine(q) ==
    \E id \in DOMAIN db.machines \cup {NoMachine} :
      \E fault \in Faults(DeleteMachineStmts(id)) :
        LET r == machineHandler(db, "DELETE", id, <<>>, NoBody, "", fault)
        IN /\ db' = r.db
           /\ last' = Call("deleteMachine", id, NoBody, fault, r)
           /\ Return(q)
           /\ UNCHANGED <<issued, reply>>

\* POST /api/machines/{id}/sensors, served for request q
CreateMachineSensor(q) ==
    \E id \in DOMAIN db.machines \cup {NoMachine}, body \in SensorBodies :
      \E ids \in NewSensorIDs(1) :
        \E fault \in (IF body.err THEN {0, 1}
                      ELSE Faults(CreateMachineSensorStmts(id, ids[1], body.name))) :
          LET r == machineHandler(db, "POST /sensors", id, ids, body, "", fault)
          IN /\ db' = r.db
             /\ issued' = IF body.err \/ r.code = StatusNotFound \/ r.failed = 1
                          THEN issued ELSE issued \cup Range(ids)
             /\ last' = Call("createMachineSensor", id, body, fault, r)
             /\ Return(q)
             /\ UNCHANGED reply

\* GET /api/machines/{id}, served for request q on the day today
GetMachine(q) ==
    \E id \in DOMAIN db.machines \cup {NoMachine}, today \in Dates :
      \E fault \in Faults(GetMachineStmts(id)) :
        LET r == machineHandler(db, "GET", id, <<>>, NoBody, today, fault)
        IN /\ db' = r.db
           /\ last' = Read("getMachine", id, today, fault, r)
           /\ Return(q)
           /\ UNCHANGED <<issued, reply>>

\* GET /api/machines, served for request q on the day today
ListMachines(q) ==
    \E today \in Dates :
      \E fault \in Faults(ListMachinesStmts(db)) :
        LET r == listMachines(db, today, fault)
        IN /\ db' = r.db
           /\ last' = Read("listMachines", "", today, fault, r)
           /\ Return(q)
           /\ UNCHANGED <<issued, reply>>

\* the bodies of POST /api/maintenance that schedule a day for a machine
DatedBodies ==
    {[err |-> FALSE,
      maint |-> [machineId |-> m, date |-> d, status |-> "scheduled", usedStock |-> <<>>]] :
        m \in MachineIds, d \in Dates}

\* the requests sent to these handlers, and the one served next
MachineRequests == {RequestOrder[1], RequestOrder[2]}

NextMachineRequest == NextRequest \cap MachineRequests

CreateOperatorCall == \E q \in NextMachineRequest : CreateOperator(q)

DeleteOperatorCall == \E q \in NextMachineRequest : DeleteOperator(q)

CreateMachineCall == \E q \in NextMachineRequest : CreateMachine(q)

UpdateMachineCall == \E q \in NextMachineRequest : UpdateMachine(q)

DeleteMachineCall == \E q \in NextMachineRequest : DeleteMachine(q)

CreateMachineSensorCall == \E q \in NextMachineRequest : CreateMachineSensor(q)

GetMachineCall == \E q \in NextMachineRequest : GetMachine(q)

ListMachinesCall == \E q \in NextMachineRequest : ListMachines(q)

ScheduleMaintenanceCall == \E q \in NextMachineRequest : CreateMaintenance(q, DatedBodies)

MachineNext ==
    \/ CreateOperatorCall
    \/ DeleteOperatorCall
    \/ CreateMachineCall
    \/ UpdateMachineCall
    \/ DeleteMachineCall
    \/ CreateMachineSensorCall
    \/ GetMachineCall
    \/ ListMachinesCall
    \/ ScheduleMaintenanceCall

MachineSpec == Init /\ [][MachineNext]_vars

\* --- ReadSpec: a GET /api/maintenance/{id} next to the goroutines of ConcSpec.
\* getMaintenance makes two storage calls on the pool, outside any transaction
\* and without the mutex; a transaction of another goroutine may commit between
\* them.  Either call may return an error, answered 500.
Reader == RequestOrder[3]

\* db.QueryRow("SELECT ... FROM maintenance WHERE id = ?").Scan: 404 without a row
GetMaintenanceQueryRow ==
    /\ pc[Reader] = "idle"
    /\ \E id \in issued, fault \in BOOLEAN :
          IF fault \/ id \notin DOMAIN db.maintenance
          THEN /\ reply' = [reply EXCEPT ![Reader] =
                               [@ EXCEPT !.id = id, !.pre = db, !.post = db,
                                         !.code = IF fault THEN StatusInternalServerError
                                                  ELSE StatusNotFound]]
               /\ Return(Reader)
          ELSE /\ reply' = [reply EXCEPT ![Reader] =
                               [@ EXCEPT !.id = id, !.pre = db, !.post = db,
                                         !.machineId = db.maintenance[id].machineId,
                                         !.status = db.maintenance[id].status]]
               /\ pc' = [pc EXCEPT ![Reader] = "getMaintenance:rows"]
               /\ UNCHANGED mutex
    /\ UNCHANGED <<db, issued, last>>

\* db.Query("SELECT stockId, quantity FROM maintenance_stock WHERE maintenanceId = ?")
\* and the rows.Next() loop; then the record is encoded, 200
GetMaintenanceQuery ==
    /\ pc[Reader] = "getMaintenance:rows"
    /\ \E fault \in BOOLEAN :
          reply' = [reply EXCEPT ![Reader] =
                      IF fault THEN [@ EXCEPT !.code = StatusInternalServerError, !.post = db]
                      ELSE [@ EXCEPT !.code = StatusOK, !.post = db,
                                     !.usedStock = SelectMaintenanceStock(db, reply[Reader].id)]]
    /\ Return(Reader)
    /\ UNCHANGED <<db, issued, last>>

ReadNext ==
    \/ ConcNext
    \/ GetMaintenanceQueryRow
    \/ GetMaintenanceQuery

ReadSpec == Init /\ [][ReadNext]_vars

\* --- WideSpec: the calls of Spec with the payloads json.Decode also accepts:
\* a machineId that names no machine, and quantities that are zero or negative
WideQuantities == {-1, 0, 1}

WideMaintenance ==
    [machineId : MachineIds \cup {NoMachine}, date : {ScheduleDate}, status : Statuses,
     usedStock : SeqsUpTo([stockId : StockIds, quantity : WideQuantities], 1)]

WideBodies ==
    {[err |-> FALSE, maint |-> m] : m \in WideMaintenance}
        \cup {[err |-> TRUE, maint |-> ZeroMaintenance]}

CreateMaintenanceWide == \E q \in NextRequest : CreateMaintenance(q, WideBodies)

UpdateMaintenanceWide == \E q \in NextRequest : UpdateMaintenance(q, WideBodies)

WideNext ==
    \/ CreateMaintenanceWide
    \/ UpdateMaintenanceWide
    \/ DeleteMaintenanceCall
    \/ DeleteStockItemCall

WideSpec == Init /\ [][WideNext]_vars

\* ------------------------------------------------------------- properties
\* the usedStock list of the request of the last call
Used == last.body.maint.usedStock

\* quantity the first n entries of a usedStock list ask of stock item s
RECURSIVE Requested(_, _, _)
Requested(usedStock, n, s) ==
    IF n = 0 THEN 0
    ELSE Requested(usedStock, n - 1, s)
         + (IF usedStock[n].stockId = s THEN usedStock[n].quantity ELSE 0)

\* quantity of stock item s held by the usage rows of the existing maintenance records
RECURSIVE ReservedBy(_, _, _)
ReservedBy(d, ids, s) ==
    IF ids = {} THEN 0
    ELSE LET id == CHOOSE x \in ids : TRUE
         IN Reserved(d, id, s) + ReservedBy(d, ids \ {id}, s)

ReservedAll(d, s) == ReservedBy(d, DOMAIN d.maintenance, s)

\* no two entries of the list name the same stock item
Distinct(usedStock) ==
    \A i, j \in 1..Len(usedStock) : usedStock[i].stockId = usedStock[j].stockId => i = j

\* the last call ran to its end with every storage call succeeding
Ran(op) == last.op = op /\ ~last.body.err /\ ~last.fault

\* C1 (as claimed): while no stock item has been edited or deleted directly, every
\* stock item's on-hand quantity plus the quantity the usage rows of the existing
\* maintenance records hold of it equals the quantity the item started with.
C1_Conservation ==
    DOMAIN db.stock = StockIds =>
        \A s \in StockIds : db.stock[s] + ReservedAll(db, s) = InitStock[s]

\* C2 (as claimed): starting from non-negative quantities, create, update and
\* delete of maintenance records never leave a stock item with a negative quantity.
C2_NonNegative ==
    DOMAIN db.stock = StockIds => \A s \in StockIds : db.stock[s] >= 0

\* some entry asks more of an existing stock item than is on hand in d once the
\* usage rows of record id are given back and the entries before it are served
ShortOf(d, id, usedStock) ==
    \E k \in 1..Len(usedStock) :
        LET s == usedStock[k].stockId
        IN /\ s \in DOMAIN d.stock
           /\ usedStock[k].quantity
                  > d.stock[s] + Reserved(d, id, s) - Requested(usedStock, k - 1, s)

OldRows(s) == Reserved(last.before, last.id, s)

\* C3 (as claimed): a createMaintenance one of whose entries asks more than is on
\* hand fails with the 400 of InsufficientStock and leaves the tables as they were.
\* (Lists that repeat a stock id are left out: they fail on the primary key.)
C3_CreateShortageFails ==
    (Ran("createMaintenance") /\ Distinct(Used) /\ ShortOf(last.before, last.id, Used))
        => (last.code = StatusBadRequest /\ db = last.before)

\* C4: whenever updateMaintenance answers a failure, the stock quantities, the
\* maintenance rows and the usage rows are those before the call.
C4_UpdateFailureAtomic ==
    (last.op = "updateMaintenance" /\ last.code # StatusOK)
        => /\ db.stock = last.before.stock
           /\ db.maintenance = last.before.maintenance
           /\ db.maintenance_stock = last.before.maintenance_stock

\* C4's case: an update of an existing record that holds usage rows, carrying another
\* status, fails on its second INSERT after the UPDATE, the DELETE and one INSERT ran
C4_Witness ==
    /\ last.op = "updateMaintenance"
    /\ last.code = StatusInternalServerError
    /\ ~last.fault
    /\ last.id \in DOMAIN last.before.maintenance
    /\ StockOf(last.before, last.id) # {}
    /\ last.body.maint.status # last.before.maintenance[last.id].status
    /\ Len(Used) = 2 /\ ~Distinct(Used)

\* C5 (as claimed): a successful updateMaintenance of an existing record leaves every
\* stock item at its quantity before the call, plus what the record's old usage rows
\* held of it, minus what the new usedStock asks of it.
C5_UpdateSwapsReservation ==
    (Ran("updateMaintenance") /\ last.code = StatusOK
         /\ last.id \in DOMAIN last.before.maintenance)
        => \A s \in DOMAIN last.before.stock :
               /\ s \in DOMAIN db.stock
               /\ db.stock[s] = last.before.stock[s] + OldRows(s)
                                     - Requested(Used, Len(Used), s)

\* C6: after deleteMaintenance of an existing record answers 204, getMaintenance
\* answers 404 for it, no usage row of it is left, and every stock item still in the
\* table has grown by what the record's usage rows held of it (by nothing if none).
C6_DeleteRestoresAndRemoves ==
    (last.op = "deleteMaintenance" /\ last.code = StatusNoContent
         /\ last.id \in DOMAIN last.before.maintenance)
        => /\ getMaintenance(db, last.id).code = StatusNotFound
           /\ StockOf(db, last.id) = {}
           /\ DOMAIN db.stock = DOMAIN last.before.stock
           /\ \A s \in DOMAIN db.stock : db.stock[s] = last.before.stock[s] + OldRows(s)

\* C6's case: the deleted record held rows of a stock item still in the table and of
\* one deleted meanwhile
C6_Witness ==
    /\ last.op = "deleteMaintenance"
    /\ last.code = StatusNoContent
    /\ last.id \in DOMAIN last.before.maintenance
    /\ \E s \in StockOf(last.before, last.id) : s \in DOMAIN db.stock
    /\ \E s \in StockOf(last.before, last.id) : s \notin DOMAIN db.stock

\* C7: after a createMaintenance all of whose storage calls succeeded, the record
\* exists with exactly the requested usage rows, and every stock item is at its
\* quantity before the call minus what the usedStock asks of it; and whenever the
\* record of a createMaintenance exists, those deductions have been made.
C7_CreateDeductsAndPersists ==
    LET deducted == /\ DOMAIN db.stock = DOMAIN last.before.stock
                    /\ \A s \in DOMAIN db.stock :
                          db.stock[s] = last.before.stock[s]
                                            - Requested(Used, Len(Used), s)
    IN /\ (Ran("createMaintenance") /\ last.code = StatusOK)
            => /\ last.id \in DOMAIN db.maintenance
               /\ StockOf(db, last.id) = {Used[k].stockId : k \in 1..Len(Used)}
               /\ \A s \in StockIds :
                     Reserved(db, last.id, s) = Requested(Used, Len(Used), s)
               /\ db.maintenance_stock = [key \in DOMAIN last.before.maintenance_stock
                                               \cup {<<last.id, s>> : s \in StockOf(db, last.id)} |->
                                            IF key[1] = last.id THEN db.maintenance_stock[key]
                                            ELSE last.before.maintenance_stock[key]]
               /\ deducted
       /\ (last.op = "createMaintenance" /\ last.id \in DOMAIN db.maintenance) => deducted

\* C7's case: a create with two entries, of two stock items in the table
C7_Witness ==
    /\ Ran("createMaintenance") /\ last.code = StatusOK
    /\ Len(Used) = 2 /\ Distinct(Used)
    /\ \A k \in 1..Len(Used) : Used[k].stockId \in DOMAIN last.before.stock

\* C8 (as claimed): an updateMaintenance of an existing record one of whose new
\* entries asks more than is on hand once the old entries are released fails and
\* leaves the tables as they were.
C8_UpdateShortageFails ==
    (Ran("updateMaintenance") /\ Distinct(Used)
         /\ last.id \in DOMAIN last.before.maintenance
         /\ ShortOf(last.before, last.id, Used))
        => (last.code # StatusOK /\ db = last.before)

\* C9 (as claimed): a createMaintenance with an entry whose stockId names no row of
\* table stock fails with a 400 and leaves the tables as they were.
C9_CreateUnknownStockFails ==
    (Ran("createMaintenance") /\ Distinct(Used)
         /\ \E k \in 1..Len(Used) : Used[k].stockId \notin DOMAIN last.before.stock)
        => (last.code = StatusBadRequest /\ db = last.before)

\* the goroutines inside one of the three maintenance mutations
InMutation ==
    {q \in Requests : pc[q] \in {"createMaintenance", "updateMaintenance", "deleteMaintenance"}}

\* C10 (as claimed): a goroutine inside createMaintenance, updateMaintenance or
\* deleteMaintenance holds the global mutex, so at most one of them is inside one.
C10_SingleExclusiveScope ==
    /\ \A q \in InMutation : mutex = q
    /\ Cardinality(InMutation) <= 1

\* C12: deleteStockItem of an item that a maintenance record's usage row names
\* answers 204 and removes it; a later deleteMaintenance of such a record answers
\* 204, leaves the deleted item out of table stock, and adds to every stock item
\* still in the table what the record's usage rows held of it.
C12_OrphanedStockReference ==
    /\ (last.op = "deleteStockItem" /\ ~last.fault
            /\ last.id \in DOMAIN last.before.stock
            /\ \E m \in DOMAIN last.before.maintenance :
                   last.id \in StockOf(last.before, m))
           => (last.code = StatusNoContent /\ last.id \notin DOMAIN db.stock)
    /\ (last.op = "deleteMaintenance" /\ ~last.fault
            /\ last.id \in DOMAIN last.before.maintenance
            /\ \E s \in StockOf(last.before, last.id) : s \notin DOMAIN last.before.stock)
           => /\ last.code = StatusNoContent
              /\ DOMAIN db.stock = DOMAIN last.before.stock
              /\ \A s \in DOMAIN db.stock :
                     db.stock[s] = last.before.stock[s] + OldRows(s)

\* C12's case: the record just deleted named a stock item deleted before it and one
\* still in the table, whose quantity has grown
C12_Witness ==
    /\ last.op = "deleteMaintenance" /\ ~last.fault
    /\ last.code = StatusNoContent
    /\ last.id \in DOMAIN last.before.maintenance
    /\ \E s \in StockOf(last.before, last.id) : s \notin DOMAIN last.before.stock
    /\ \E s \in StockOf(last.before, last.id) :
           s \in DOMAIN db.stock /\ db.stock[s] > last.before.stock[s]

\* C13 (as claimed): deleteMaintenance of an id that names no maintenance record
\* answers 404 and leaves the tables as they were.
C13_DeleteUnknownNotFound ==
    (last.op = "deleteMaintenance" /\ ~last.fault
         /\ last.id \notin DOMAIN last.before.maintenance)
        => (last.code = StatusNotFound /\ db = last.before)

\* C14 (as claimed): updateMaintenance of an id that names no maintenance record
\* answers 404, leaves the tables as they were and stores no usage row for the id.
C14_UpdateUnknownNotFound ==
    (Ran("updateMaintenance") /\ last.id \notin DOMAIN last.before.maintenance)
        => /\ last.code = StatusNotFound
           /\ db = last.before
           /\ StockOf(db, last.id) = {}

\* C15 (as claimed): when a storage call of createMaintenance, updateMaintenance or
\* deleteMaintenance fails, tx.Commit() included, the answer is a 5xx and the
\* tables are those before the call.
C15_StorageFailureReported ==
    (last.op \in {"createMaintenance", "updateMaintenance", "deleteMaintenance"}
         /\ last.fault)
        => (last.code >= StatusInternalServerError /\ db = last.before)

\* C16 (as claimed): every row of maintenance_stock names a maintenance record that
\* is in table maintenance.
C16_UsageRowsOwned ==
    \A key \in DOMAIN db.maintenance_stock : key[1] \in DOMAIN db.maintenance

\* C18: after an updateMaintenance that answered 200 with every storage call
\* succeeding, the usage rows of the id are exactly the entries of the request;
\* after any other updateMaintenance they are the rows before the call.
C18_RowsReplacedOnlyOnSuccess ==
    LET done == last.code = StatusOK /\ ~last.fault
    IN /\ (last.op = "updateMaintenance" /\ done)
            => /\ StockOf(db, last.id) = {Used[k].stockId : k \in 1..Len(Used)}
               /\ \A k \in 1..Len(Used) :
                      db.maintenance_stock[<<last.id, Used[k].stockId>>] = Used[k].quantity
       /\ (last.op = "updateMaintenance" /\ ~done)
            => /\ StockOf(db, last.id) = StockOf(last.before, last.id)
               /\ \A s \in StockIds : Reserved(db, last.id, s) = OldRows(s)

\* C18's case: an update that succeeded on a record whose old rows name a stock item
\* the new entries do not
C18_Witness ==
    /\ last.op = "updateMaintenance" /\ last.code = StatusOK /\ ~last.fault
    /\ last.id \in DOMAIN last.before.maintenance
    /\ Len(Used) > 0
    /\ \E s \in StockOf(last.before, last.id) :
           \A k \in 1..Len(Used) : Used[k].stockId # s

\* the entries of usedStock, by their place in the payload, that ask more of an
\* existing stock item than is on hand in d once the rows of id are given back
ShortEntries(d, id, usedStock) ==
    {k \in 1..Len(usedStock) :
        /\ usedStock[k].stockId \in DOMAIN d.stock
        /\ usedStock[k].quantity
               > d.stock[usedStock[k].stockId] + Reserved(d, id, usedStock[k].stockId)}

\* the storage calls a handler makes for the k-th entry of the payload
EntryStmts(op, k) ==
    IF op = "createMaintenance" THEN {2 * k + 1, 2 * k + 2} ELSE {k + 3}

\* C20 (as claimed): when several entries of a createMaintenance or
\* updateMaintenance payload are short of stock, the call reports an error, and the
\* error is that of the first short entry in payload order.
C20_FirstShortageWins ==
    LET short == ShortEntries(last.before, last.id, Used)
        first == CHOOSE k \in short : \A j \in short : k <= j
        r == IF last.op = "createMaintenance"
             THEN createMaintenance(last.before, last.id, last.body, 0)
             ELSE updateMaintenance(last.before, last.id, last.body, 0)
    IN ((Ran("createMaintenance") \/ Ran("updateMaintenance"))
            /\ Distinct(Used) /\ Cardinality(short) >= 2)
           => (last.code # StatusOK /\ r.failed \in EntryStmts(last.op, first))

\* C17 (as claimed): every stored usage row has a quantity above 0, and a
\* createMaintenance or updateMaintenance whose payload carries an entry with a
\* quantity of 0 or less stores no row for that entry and raises no stock quantity.
C17_PositiveUsageQuantities ==
    /\ \A key \in DOMAIN db.maintenance_stock : db.maintenance_stock[key] > 0
    /\ (last.op \in {"createMaintenance", "updateMaintenance"}
            /\ \E k \in 1..Len(Used) : Used[k].quantity <= 0)
           => /\ \A k \in 1..Len(Used) :
                     Used[k].quantity <= 0 =>
                         Used[k].stockId \notin StockOf(db, last.id)
                             \ StockOf(last.before, last.id)
              /\ \A s \in DOMAIN db.stock \cap DOMAIN last.before.stock :
                     db.stock[s] <= last.before.stock[s]

\* C19 (as claimed): a createMaintenance or updateMaintenance whose machineId names
\* no row of table machines answers 400 and leaves the tables as they were, so every
\* maintenance record names a machine of table machines.
C19_MachineReferenceValidated ==
    /\ ((Ran("createMaintenance") \/ Ran("updateMaintenance"))
            /\ last.body.maint.machineId \notin DOMAIN last.before.machines)
           => (last.code = StatusBadRequest /\ db = last.before)
    /\ \A m \in DOMAIN db.maintenance :
           db.maintenance[m].machineId \in DOMAIN db.machines

\* what the getMaintenance of the Reader answered
Got ==
    [code |-> reply[Reader].code, machineId |-> reply[Reader].machineId,
     status |-> reply[Reader].status, usedStock |-> reply[Reader].usedStock]

\* C11 (as claimed): a getMaintenance that answers a record, running next to a
\* createMaintenance, updateMaintenance or deleteMaintenance, answers the record
\* with its usage rows as stored when its reading began or as stored when it ended.
C11_NoTornReads ==
    (pc[Reader] = "done" /\ reply[Reader].code = StatusOK)
        => \/ Got = getMaintenance(reply[Reader].pre, reply[Reader].id)
           \/ Got = getMaintenance(reply[Reader].post, reply[Reader].id)

\* C24: no updateMaintenance, whatever it answers, changes table stock; and a
\* deleteMaintenance adds to each stock item what the usage rows of the record
\* hold of it when it runs.
C24_UpdateStockNeutral ==
    /\ last.op = "updateMaintenance" => db.stock = last.before.stock
    /\ (last.op = "deleteMaintenance" /\ last.code = StatusNoContent)
           => \A s \in DOMAIN db.stock :
                  /\ s \in DOMAIN last.before.stock
                  /\ db.stock[s] = last.before.stock[s] + OldRows(s)

\* C24's case: the only record ever created has been deleted after an update of its
\* usage rows, and a stock item it used has not come back to its first quantity
C24_Witness ==
    /\ last.op = "deleteMaintenance" /\ last.code = StatusNoContent
    /\ last.id \in DOMAIN last.before.maintenance
    /\ DOMAIN db.maintenance = {} /\ DOMAIN db.maintenance_stock = {}
    /\ Cardinality(issued) = 1
    /\ \E s \in DOMAIN db.stock : OldRows(s) > 0 /\ db.stock[s] # InitStock[s]

\* C25: when a createMaintenance that stored its record is followed at once by a
\* deleteMaintenance of that record answering 204, and the stock items its rows name
\* are in table stock, then tables stock, maintenance and maintenance_stock are
\* those before the create.
C25_CreateDeleteRoundTrip ==
    [][(/\ last.op = "createMaintenance" /\ last.code = StatusOK /\ ~last.fault
        /\ last'.op = "deleteMaintenance" /\ last'.id = last.id
        /\ last'.code = StatusNoContent
        /\ StockOf(db, last.id) \subseteq DOMAIN db.stock)
          => /\ db'.stock = last.before.stock
             /\ db'.maintenance = last.before.maintenance
             /\ db'.maintenance_stock = last.before.maintenance_stock]_vars

\* C25's case: two calls were served, the second a deleteMaintenance answering 204
\* for a record with usage rows, which only the first call can have created
C25_Witness ==
    /\ pc[RequestOrder[1]] = "done" /\ pc[RequestOrder[2]] = "done"
    /\ pc[RequestOrder[3]] = "idle"
    /\ last.op = "deleteMaintenance" /\ last.code = StatusNoContent
    /\ last.id \in DOMAIN last.before.maintenance
    /\ StockOf(last.before, last.id) # {}
    /\ StockOf(last.before, last.id) \subseteq DOMAIN last.before.stock
    /\ db.stock = InitStock

\* C27: a createMaintenance or updateMaintenance whose usedStock repeats a stock id
\* answers 500, its failing storage call (when none fails on I/O) being the INSERT of
\* the second of the two entries, and leaves the tables as they were.
C27_DuplicateStockItemFails ==
    LET r == IF last.op = "createMaintenance"
             THEN createMaintenance(last.before, last.id, last.body, 0)
             ELSE updateMaintenance(last.before, last.id, last.body, 0)
        repeats == {k \in 2..Len(Used) : \E j \in 1..(k - 1) : Used[j].stockId = Used[k].stockId}
    IN (last.op \in {"createMaintenance", "updateMaintenance"} /\ ~last.body.err
            /\ ~Distinct(Used))
           => /\ last.code = StatusInternalServerError
              /\ db = last.before
              /\ r.failed \in EntryStmts(last.op, CHOOSE k \in repeats : \A j \in repeats : k <= j)

\* C27's case: a create whose two entries name the same stock item, of which there
\* is enough, failed on the primary key and not on I/O
C27_Witness ==
    /\ last.op = "createMaintenance" /\ ~last.body.err /\ ~last.fault
    /\ Len(Used) = 2 /\ ~Distinct(Used)
    /\ Used[1].stockId \in DOMAIN last.before.stock
    /\ last.before.stock[Used[1].stockId] >= Used[1].quantity + Used[2].quantity
    /\ last.code = StatusInternalServerError

\* C30: a record a createMaintenance stored has status "scheduled"; a record's status
\* is other than it was before a call (other than "scheduled" for a record that was
\* not there) only after an updateMaintenance of it that answered 200.
C30_InitialStatusScheduled ==
    /\ (last.op = "createMaintenance" /\ last.id \in DOMAIN db.maintenance)
           => db.maintenance[last.id].status = "scheduled"
    /\ \A m \in DOMAIN db.maintenance :
           LET was == IF m \in DOMAIN last.before.maintenance
                      THEN last.before.maintenance[m].status ELSE "scheduled"
           IN db.maintenance[m].status # was
                  => (last.op = "updateMaintenance" /\ last.id = m
                          /\ last.code = StatusOK /\ ~last.fault)

\* C30's case: the payload of a stored createMaintenance carried another status
C30_Witness ==
    /\ last.op = "createMaintenance" /\ last.code = StatusOK
    /\ last.id \in DOMAIN db.maintenance
    /\ last.body.maint.status = "done"

\* C26: of the deleteMaintenance calls racing for one record, one adds the reserved
\* amount to the stock item (table stock shows it exactly once, and only when the
\* record is gone); a deleteMaintenance of the id that follows one answering 204
\* changes no stock quantity.
C26_DeleteReleasesOnce ==
    /\ [](\A s \in DOMAIN db.stock :
             db.stock[s] = RaceTables.stock[s]
                 + (IF RaceRecord \in DOMAIN db.maintenance THEN 0
                    ELSE Reserved(RaceTables, RaceRecord, s)))
    /\ [][(/\ last.op = "deleteMaintenance" /\ last.code = StatusNoContent
           /\ last'.op = "deleteMaintenance" /\ last'.id = last.id)
             => db'.stock = db.stock]_vars

\* C26's case: a deleteMaintenance answered 204 for the record after another had
\* deleted it, a third still waiting for the mutex, and the stock released once
C26_Witness ==
    /\ last.op = "deleteMaintenance" /\ last.code = StatusNoContent
    /\ last.id = RaceRecord
    /\ RaceRecord \notin DOMAIN last.before.maintenance
    /\ \E q \in Requests : pc[q] = AtLock("deleteMaintenance")
    /\ db.stock["bolt"] = RaceTables.stock["bolt"] + 1

\* C28: a goroutine is inside a locking handler exactly while it holds the mutex
\* (taken once on entry, given up on every return); and every goroutine waiting at
\* mutex.Lock() gets the mutex, and every one holding it returns and gives it up.
C28_MutexLiveness ==
    /\ [](\A q \in Requests : (mutex = q) <=> (pc[q] \in Locking))
    /\ \A q \in ConcRequests :
           /\ (\E handler \in Locking : pc[q] = AtLock(handler)) ~> (mutex = q)
           /\ (mutex = q) ~> (pc[q] = "done" /\ mutex # q)

\* C28's case: a goroutine waits at mutex.Lock() while another holds the mutex
C28_Witness ==
    \E q \in ConcRequests, other \in ConcRequests, handler \in Locking :
        /\ pc[q] = AtLock(handler)
        /\ other # q /\ mutex = other /\ pc[other] \in Locking

\* the sensors table d holds for machine id
SensorsOf(d, id) == {x \in DOMAIN d.sensors : d.sensors[x].machineId = id}

\* C21: after a deleteOperator answered 204 the operator is gone and the other
\* operators stay, table machines has the rows it had, every row that named the
\* operator holds NULL for it and every other column and row is as before, and
\* no other table changed.
C21_DeleteOperatorUnassigns ==
    (last.op = "deleteOperator" /\ last.code = StatusNoContent)
        => /\ db.operators = Drop(last.before.operators, {last.id})
           /\ DOMAIN db.machines = DOMAIN last.before.machines
           /\ \A m \in DOMAIN db.machines :
                 /\ db.machines[m].operatorId # last.id
                 /\ db.machines[m].status = last.before.machines[m].status
                 /\ db.machines[m].operatorId =
                        IF last.before.machines[m].operatorId = last.id THEN Null
                        ELSE last.before.machines[m].operatorId
           /\ db.sensors = last.before.sensors
           /\ db.maintenance = last.before.maintenance
           /\ db.stock = last.before.stock

\* C21's case: a deleteOperator answered 204 for an operator a machine named
C21_Witness ==
    /\ last.op = "deleteOperator" /\ last.code = StatusNoContent
    /\ \E m \in DOMAIN last.before.machines :
           /\ last.before.machines[m].operatorId = last.id
           /\ m \in DOMAIN db.machines
           /\ db.machines[m].operatorId = Null

\* C22 (as claimed): createMachine, and updateMachine of an existing machine, with
\* an operatorId that is not empty and names no operator answers 400 and leaves
\* the tables as they were; and every row of table machines holds an operatorId
\* that is empty, NULL or the id of a row of table operators.
C22_OperatorReferenceValidated ==
    /\ (/\ last.op \in {"createMachine", "updateMachine"}
        /\ ~last.body.err
        /\ last.op = "updateMachine" => last.id \in DOMAIN last.before.machines
        /\ last.body.machine.operatorId \notin {""} \cup DOMAIN last.before.operators
        /\ ~last.fault)
           => (last.code = StatusBadRequest /\ db = last.before)
    /\ \A m \in DOMAIN db.machines :
           db.machines[m].operatorId \in {"", Null} \cup DOMAIN db.operators

\* C23 (as claimed): a getMachine or listMachines answered 200 gives a machine the
\* status "Em manutencao" exactly when a row of table maintenance names the
\* machine with the date of the day of the call, gives it the stored status
\* otherwise, and leaves every table as it was.
C23_DerivedMaintenanceStatus ==
    (last.op \in {"getMachine", "listMachines"} /\ last.code = StatusOK)
        => /\ db = last.before
           /\ \A m \in DOMAIN last.out :
                 LET scheduled ==
                         \E x \in DOMAIN last.before.maintenance :
                             /\ last.before.maintenance[x].machineId = m
                             /\ last.before.maintenance[x].date = last.body.today
                 IN /\ (last.out[m].status = EmManutencao) <=> scheduled
                    /\ ~scheduled => last.out[m].status = last.before.machines[m].status

\* C29: every row of table sensors names a row of table machines; a deleteMachine
\* answered 204 leaves no machine and no sensor of that id; an updateMachine
\* answered 200 leaves the machine as many sensors as the payload carries, each
\* under an id no sensor had before and with a name of the payload, and leaves the
\* sensors of the other machines alone.
C29_SensorsOwned ==
    /\ \A x \in DOMAIN db.sensors : db.sensors[x].machineId \in DOMAIN db.machines
    /\ (last.op = "deleteMachine" /\ last.code = StatusNoContent)
           => (last.id \notin DOMAIN db.machines /\ SensorsOf(db, last.id) = {})
    /\ (last.op = "updateMachine" /\ last.code = StatusOK)
           => /\ Cardinality(SensorsOf(db, last.id)) = Len(last.body.machine.sensors)
              /\ SensorsOf(db, last.id) \cap DOMAIN last.before.sensors = {}
              /\ \A x \in SensorsOf(db, last.id) :
                     db.sensors[x].name \in Range(last.body.machine.sensors)
              /\ \A m \in DOMAIN db.machines \ {last.id} :
                     /\ SensorsOf(db, m) = SensorsOf(last.before, m)
                     /\ \A x \in SensorsOf(db, m) : db.sensors[x] = last.before.sensors[x]

\* C29's case: an updateMachine answered 200 for a machine that had a sensor,
\* with a payload that carries sensors
C29_Witness ==
    /\ last.op = "updateMachine" /\ last.code = StatusOK
    /\ SensorsOf(last.before, last.id) # {}
    /\ last.body.machine.sensors # <<>>
    /\ SensorsOf(db, last.id) # {}

====
